---- MODULE Spec2Model ----
(***************************************************************************)
(* A model of src/main.py of pdf-to-zenmoney: parse_bank_statement (the    *)
(* segmentation of the statement text around its date-time anchors),       *)
(* convert_to_zenmoney_format (date normalisation, amount normalisation,   *)
(* record assembly), post_transactions, delete_transactions and the        *)
(* commands import_transactions and delete.                                *)
(*                                                                         *)
(* Strings are sequences of one-character strings.  Three characters of    *)
(* the source are written with ASCII stand-ins:                            *)
(*     "v"  the Cyrillic connector of ' в ' (main.py:40, 203, 210)          *)
(*     "R"  the rouble mark (main.py:77)                                    *)
(*     "~"  the en dash accepted as a minus sign (main.py:77, 87, 267)      *)
(***************************************************************************)
EXTENDS Integers, Sequences, FiniteSets, TLC

VARIABLES
    text,                   \* parse_bank_statement: the statement text, a sequence of tokens
    matches,                \* parse_bank_statement: positions of the anchors (main.py:43)
    i,                      \* parse_bank_statement: the loop index of main.py:45
    transactions,           \* parse_bank_statement: the list returned (main.py:26)
    regions,                \* history: the text regions each loop iteration read
    ppc,                    \* parse_bank_statement: "start", "loop", "done"
    txns,                   \* convert_to_zenmoney_format: the argument `transactions`
    zenmoney_data,          \* what get_zenmoney_data returned (or "error")
    account_title,          \* convert_to_zenmoney_format: the argument
    resolved,               \* account_id, rub_instrument, user_id after main.py:160-179
    n,                      \* convert_to_zenmoney_format: transactions consumed by the loop of main.py:184
    zenmoney_transactions,  \* convert_to_zenmoney_format: the list returned (main.py:181)
    pads_year,              \* whether the C library's strftime pads %Y to four digits
    cpc,                    \* convert_to_zenmoney_format: "start", "loop", "done", "raised"
    fetches,                \* history: the calls of get_zenmoney_data made so far
    dry_run,                \* import_transactions: the flag --dry-run
    confirmed,              \* import_transactions: the answer to click.confirm (main.py:581), or "unasked"
    posts,                  \* history: the record lists post_transactions has sent (main.py:385)
    rpc,                    \* import_transactions: "parse", "convert", "post", "done", "aborted"
    raw,                    \* the removals of main.py:29-32: the text they are applied to
    clean,                  \* the removals of main.py:29-32: what each application gave
    options,                \* delete: the options account, start_date, end_date, delete_all
    ledger,                 \* delete_transactions: the transactions get_zenmoney_data returned
    answers,                \* delete: the answers given to the confirmations, in order
    deletions,              \* history: the record lists delete_transactions has sent (main.py:508)
    dpc                     \* delete: "start", "guard", "call", "done", "aborted"

vars == <<text, matches, i, transactions, regions, ppc,
          txns, zenmoney_data, account_title, resolved, n,
          zenmoney_transactions, pads_year, cpc,
          fetches, dry_run, confirmed, posts, rpc, raw, clean,
          options, ledger, answers, deletions, dpc>>

parseVars == <<text, matches, i, transactions, regions, ppc>>
convertVars == <<txns, zenmoney_data, account_title, resolved, n,
                 zenmoney_transactions, pads_year, cpc>>
runVars == <<dry_run, confirmed, posts, rpc>>
sanitizeVars == <<raw, clean>>
deleteVars == <<options, ledger, answers, deletions, dpc>>
otherVars == <<runVars, sanitizeVars, deleteVars>>

---------------------------------------------------------------------------
(* Characters and strings *)

Digit == {"0", "1", "2", "3", "4", "5", "6", "7", "8", "9"}
Digit19 == Digit \ {"0"}
Whitespace == {" ", "\t", "\n"}

DigitVal(c) ==
    CASE c = "0" -> 0 [] c = "1" -> 1 [] c = "2" -> 2 [] c = "3" -> 3
      [] c = "4" -> 4 [] c = "5" -> 5 [] c = "6" -> 6 [] c = "7" -> 7
      [] c = "8" -> 8 [] c = "9" -> 9

DigitChar(d) ==
    CASE d = 0 -> "0" [] d = 1 -> "1" [] d = 2 -> "2" [] d = 3 -> "3"
      [] d = 4 -> "4" [] d = 5 -> "5" [] d = 6 -> "6" [] d = 7 -> "7"
      [] d = 8 -> "8" [] d = 9 -> "9"

\* int(s) of a string of digits, surrounding whitespace ignored as int() does.
RECURSIVE ToInt(_)
ToInt(s) ==
    IF s = <<>> THEN 0
    ELSE IF s[Len(s)] \in Digit
         THEN 10 * ToInt(SubSeq(s, 1, Len(s) - 1)) + DigitVal(s[Len(s)])
         ELSE ToInt(SubSeq(s, 1, Len(s) - 1))

\* str.strip()
RECURSIVE LStrip(_)
LStrip(s) == IF s # <<>> /\ s[1] \in Whitespace THEN LStrip(Tail(s)) ELSE s

RECURSIVE RStrip(_)
RStrip(s) ==
    IF s # <<>> /\ s[Len(s)] \in Whitespace THEN RStrip(SubSeq(s, 1, Len(s) - 1)) ELSE s

Strip(s) == LStrip(RStrip(s))

\* ''.join(s.split()): every whitespace character removed
RemoveWhitespace(s) == SelectSeq(s, LAMBDA c : c \notin Whitespace)

\* str.replace(',', '.')
CommaToDot(s) == [k \in 1..Len(s) |-> IF s[k] = "," THEN "." ELSE s[k]]

StartsWith(s, c) == s # <<>> /\ s[1] = c

\* Whether `sub` occurs in s at position p.
OccursAt(s, sub, p) ==
    /\ p + Len(sub) - 1 <= Len(s)
    /\ \A k \in 1..Len(sub) : s[p + k - 1] = sub[k]

\* s.split(sub)[0]: s up to the first occurrence of sub, or all of s.
FirstPart(s, sub) ==
    LET hits == {p \in 1..Len(s) : OccursAt(s, sub, p)}
    IN  IF hits = {} THEN s
        ELSE SubSeq(s, 1, (CHOOSE p \in hits : \A q \in hits : p <= q) - 1)

---------------------------------------------------------------------------
(* datetime.strptime and datetime(...) as convert_to_zenmoney_format uses   *)
(* them (main.py:201-252).  strptime turns the format into a regular        *)
(* expression, one group of ordered alternatives per directive, a run of    *)
(* whitespace for a blank; re.match takes the first match in priority       *)
(* order, the whole string must be consumed, and the fields must make a     *)
(* calendar date.                                                           *)

NoDate == [ok |-> FALSE, year |-> 0, month |-> 0, day |-> 0]

IsLeap(y) == (y % 4 = 0 /\ y % 100 # 0) \/ y % 400 = 0

DaysInMonth(y, m) ==
    IF m = 2 THEN (IF IsLeap(y) THEN 29 ELSE 28)
    ELSE IF m \in {4, 6, 9, 11} THEN 30 ELSE 31

\* datetime(year, month, day) succeeds (MINYEAR = 1, MAXYEAR = 9999)
ValidDate(y, m, d) ==
    /\ y \in 1..9999
    /\ m \in 1..12
    /\ d \in 1..DaysInMonth(y, m)

\* datetime(year, month, day), ValueError as NoDate
datetime(y, m, d) ==
    IF ValidDate(y, m, d) THEN [ok |-> TRUE, year |-> y, month |-> m, day |-> d]
    ELSE NoDate

\* The alternatives of one item of a format, each a sequence of character
\* classes, in the order of the regular expression strptime builds.
DirectiveAlts(item) ==
    CASE item = "%d" -> << <<{"3"}, {"0", "1"}>>, <<{"1", "2"}, Digit>>,
                           <<{"0"}, Digit19>>, <<Digit19>>, <<{" "}, Digit19>> >>
      [] item = "%m" -> << <<{"1"}, {"0", "1", "2"}>>, <<{"0"}, Digit19>>, <<Digit19>> >>
      [] item = "%Y" -> << <<Digit, Digit, Digit, Digit>> >>
      [] item = "%H" -> << <<{"2"}, {"0", "1", "2", "3"}>>, <<{"0", "1"}, Digit>>, <<Digit>> >>
      [] item = "%M" -> << <<{"0", "1", "2", "3", "4", "5"}, Digit>>, <<Digit>> >>
      [] OTHER -> << <<{item}>> >>

AltMatches(s, p, alt) ==
    /\ p + Len(alt) - 1 <= Len(s)
    /\ \A k \in 1..Len(alt) : s[p + k - 1] \in alt[k]

RECURSIVE WsRun(_, _)
WsRun(s, p) == IF p <= Len(s) /\ s[p] \in Whitespace THEN 1 + WsRun(s, p + 1) ELSE 0

\* The lengths item can match at p, in priority order (\s+ is greedy).
MatchLengths(s, p, item) ==
    IF item = "ws"
    THEN [k \in 1..WsRun(s, p) |-> WsRun(s, p) - k + 1]
    ELSE LET hit == SelectSeq(DirectiveAlts(item), LAMBDA a : AltMatches(s, p, a))
         IN  [k \in 1..Len(hit) |-> Len(hit[k])]

NoMatch == [ok |-> FALSE, end |-> 0, caps |-> <<>>]

\* re.match of the items fmt[k..] at position p of s: the first match in
\* priority order, with the text each item took.
RECURSIVE ReMatch(_, _, _, _)
RECURSIVE TryLengths(_, _, _, _, _, _)
ReMatch(s, p, fmt, k) ==
    IF k > Len(fmt) THEN [ok |-> TRUE, end |-> p, caps |-> <<>>]
    ELSE TryLengths(s, p, fmt, k, MatchLengths(s, p, fmt[k]), 1)

TryLengths(s, p, fmt, k, lens, j) ==
    IF j > Len(lens) THEN NoMatch
    ELSE LET r == ReMatch(s, p + lens[j], fmt, k + 1)
         IN  IF r.ok
             THEN [ok |-> TRUE, end |-> r.end,
                   caps |-> <<[item |-> fmt[k],
                               val |-> ToInt(SubSeq(s, p, p + lens[j] - 1))]>> \o r.caps]
             ELSE TryLengths(s, p, fmt, k, lens, j + 1)

Captured(caps, item) ==
    LET hit == SelectSeq(caps, LAMBDA c : c.item = item) IN hit[1].val

\* datetime.strptime(s, fmt), ValueError as NoDate
strptime(s, fmt) ==
    LET r == ReMatch(s, 1, fmt, 1)
    IN  IF ~r.ok \/ r.end # Len(s) + 1 THEN NoDate
        ELSE datetime(Captured(r.caps, "%Y"), Captured(r.caps, "%m"), Captured(r.caps, "%d"))

\* main.py:201-207
date_formats ==
    << <<"%d", ".", "%m", ".", "%Y">>,
       <<"%d", ".", "%m", ".", "%Y", "ws", "v", "ws", "%H", ":", "%M">>,
       <<"%Y", "-", "%m", "-", "%d">>,
       <<"%d", "/", "%m", "/", "%Y">>,
       <<"%Y", ".", "%m", ".", "%d">> >>

\* main.py:210-211
date_part(date_str_clean) == Strip(FirstPart(date_str_clean, <<" ", "v", " ">>))

\* main.py:214-220: the first format that parses date_part
RECURSIVE TryFormats(_, _)
TryFormats(part, k) ==
    IF k > Len(date_formats) THEN NoDate
    ELSE LET dt == strptime(part, date_formats[k])
         IN  IF dt.ok THEN dt ELSE TryFormats(part, k + 1)

\* main.py:225: re.search(r'(\d{1,2})[./](\d{1,2})[./](\d{4})', s), the
\* leftmost match, each \d{1,2} taking two digits before one.
DateSeparator == {".", "/"}

AllDigits(s, p, len) ==
    /\ p + len - 1 <= Len(s)
    /\ \A k \in p..(p + len - 1) : s[k] \in Digit

GroupsAt(s, p, l1, l2) ==
    /\ AllDigits(s, p, l1)
    /\ p + l1 <= Len(s) /\ s[p + l1] \in DateSeparator
    /\ AllDigits(s, p + l1 + 1, l2)
    /\ p + l1 + 1 + l2 <= Len(s) /\ s[p + l1 + 1 + l2] \in DateSeparator
    /\ AllDigits(s, p + l1 + l2 + 2, 4)

date_match(s) ==
    LET cands == {c \in (1..Len(s)) \X {1, 2} \X {1, 2} : GroupsAt(s, c[1], c[2], c[3])}
        Before(c, d) ==
            \/ c[1] < d[1]
            \/ c[1] = d[1] /\ c[2] > d[2]
            \/ c[1] = d[1] /\ c[2] = d[2] /\ c[3] >= d[3]
    IN  IF cands = {} THEN [ok |-> FALSE]
        ELSE LET c == CHOOSE c \in cands : \A d \in cands : Before(c, d)
             IN  [ok |-> TRUE,
                  day |-> SubSeq(s, c[1], c[1] + c[2] - 1),
                  month |-> SubSeq(s, c[1] + c[2] + 1, c[1] + c[2] + c[3]),
                  year |-> SubSeq(s, c[1] + c[2] + c[3] + 2, c[1] + c[2] + c[3] + 5)]

\* A slip: for groups both <= 12 the month-first reading is tried first.
DateFallbackMonthFirst(date_str_clean) ==
    LET m == date_match(date_str_clean)
    IN  IF ~m.ok THEN NoDate
        ELSE LET day_int == ToInt(m.day)
                 month_int == ToInt(m.month)
                 year_int == ToInt(m.year)
             IN  IF day_int > 12 THEN datetime(year_int, month_int, day_int)
                 ELSE IF datetime(year_int, day_int, month_int).ok
                      THEN datetime(year_int, day_int, month_int)
                      ELSE datetime(year_int, month_int, day_int)

\* main.py:223-254: the digit-group fallback
DateFallback(date_str_clean) ==
    LET m == date_match(date_str_clean)
    IN  IF ~m.ok THEN NoDate
        ELSE LET day_int == ToInt(m.day)
                 month_int == ToInt(m.month)
                 year_int == ToInt(m.year)
             IN  IF day_int > 12 THEN datetime(year_int, month_int, day_int)
                 ELSE IF month_int > 12 THEN datetime(year_int, day_int, month_int)
                 ELSE IF datetime(year_int, month_int, day_int).ok
                      THEN datetime(year_int, month_int, day_int)
                      ELSE datetime(year_int, day_int, month_int)

\* main.py:195-258: the date of one transaction; ok = FALSE is `not date`.
\* path tells which step produced it.
NormalizeDate(date_str) ==
    LET date_str_clean == Strip(date_str)
        dt == TryFormats(date_part(date_str_clean), 1)
        fb == DateFallback(date_str_clean)
    IN  IF dt.ok THEN [ok |-> TRUE, year |-> dt.year, month |-> dt.month,
                       day |-> dt.day, path |-> "template"]
        ELSE [ok |-> fb.ok, year |-> fb.year, month |-> fb.month,
              day |-> fb.day, path |-> "fallback"]

\* The decimal digits of v, at least `width` of them.
RECURSIVE Digits(_, _)
Digits(v, width) ==
    IF v < 10 /\ width <= 1 THEN <<DigitChar(v)>>
    ELSE Digits(v \div 10, width - 1) \o <<DigitChar(v % 10)>>

\* dt.strftime('%Y-%m-%d') (main.py:217, 239, 243, 248, 252).  %m and %d
\* are two digits; %Y is what the C library prints: four digits, or, with
\* glibc, the year unpadded.
strftime(dt, pads) ==
    Digits(dt.year, IF pads THEN 4 ELSE 1) \o <<"-">> \o Digits(dt.month, 2)
        \o <<"-">> \o Digits(dt.day, 2)

---------------------------------------------------------------------------
(* The amount step of convert_to_zenmoney_format (main.py:260-299) *)

Sign == {"+", "-"}

\* Whether float(s) accepts s, for s over digits, '.', signs and other
\* marks: an optional sign, then digits with at most one '.', at least
\* one digit.  (Exponents, 'inf', 'nan' and '_' are not in the strings
\* considered.)
FloatSyntax(s) ==
    LET body == IF s # <<>> /\ s[1] \in Sign THEN Tail(s) ELSE s
    IN  /\ \A k \in 1..Len(body) : body[k] \in Digit \cup {"."}
        /\ Cardinality({k \in 1..Len(body) : body[k] = "."}) <= 1
        /\ \E k \in 1..Len(body) : body[k] \in Digit

RECURSIVE Pow10(_)
Pow10(k) == IF k = 0 THEN 1 ELSE 10 * Pow10(k - 1)

\* float(s) as the exact fraction sign * num / den it denotes
float(s) ==
    IF ~FloatSyntax(s) THEN [ok |-> FALSE, neg |-> FALSE, num |-> 0, den |-> 1]
    ELSE LET body == IF s[1] \in Sign THEN Tail(s) ELSE s
             dots == {k \in 1..Len(body) : body[k] = "."}
             frac == IF dots = {} THEN 0 ELSE Len(body) - (CHOOSE k \in dots : TRUE)
         IN  [ok |-> TRUE, neg |-> s[1] = "-",
              num |-> ToInt(SelectSeq(body, LAMBDA c : c \in Digit)),
              den |-> Pow10(frac)]

\* round(num / den) for num >= 0: to the nearest integer, a tie to the even one
round(num, den) ==
    LET q == num \div den
        r == num % den
    IN  IF 2 * r < den THEN q
        ELSE IF 2 * r > den THEN q + 1
        ELSE IF q % 2 = 0 THEN q ELSE q + 1

\* main.py:267
is_negative(amount_clean) == StartsWith(amount_clean, "-") \/ StartsWith(amount_clean, "~")

\* main.py:268
is_positive(amount_clean) == StartsWith(amount_clean, "+")

\* main.py:299
is_income(amount_str) == StartsWith(amount_str, "+")

\* main.py:261-293: ok = FALSE is the except branch; amount_in_cents is
\* int(round(amount_float)) with the sign of main.py:281-284 applied.
ParseAmount(amount_str) ==
    LET stripped == RemoveWhitespace(amount_str)
        unsigned == IF is_negative(stripped) \/ is_positive(stripped)
                    THEN Tail(stripped) ELSE stripped
        f == float(CommaToDot(unsigned))
    IN  IF ~f.ok THEN [ok |-> FALSE, amount_in_cents |-> 0]
        ELSE [ok |-> TRUE,
              amount_in_cents |-> IF is_negative(stripped)
                                  THEN 0 - round(f.num, f.den)
                                  ELSE round(f.num, f.den)]

Abs(x) == IF x < 0 THEN 0 - x ELSE x

---------------------------------------------------------------------------
(* The payee of a description (main.py:301-316) *)

\* Stand-ins for the three literal prefixes of payee_patterns.
IncomingSBP == <<"I", "n", " ", "S", "B", "P", ",", " ">>
OutgoingSBP == <<"O", "u", "t", " ", "S", "B", "P", ",", " ">>
Purchase == <<"P", "a", "y", " ">>

\* [A-Z_0-9], of the capitals those that occur in the descriptions considered
MerchantChar == {"A", "B", "C", "I", "O", "P", "S", "_"} \cup Digit

\* The longest run of characters of s from p on that are in class.
RECURSIVE RunLength(_, _, _)
RunLength(s, p, class) ==
    IF p <= Len(s) /\ s[p] \in class THEN 1 + RunLength(s, p + 1, class) ELSE 0

\* re.search(prefix + '(<class>+)', s).group(1), or <<>> when there is no match
CaptureAfter(s, prefix, class) ==
    LET hits == {p \in 1..Len(s) :
                    OccursAt(s, prefix, p) /\ RunLength(s, p + Len(prefix), class) > 0}
    IN  IF hits = {} THEN <<>>
        ELSE LET p == CHOOSE p \in hits : \A q \in hits : p <= q
             IN  SubSeq(s, p + Len(prefix),
                        p + Len(prefix) + RunLength(s, p + Len(prefix), class) - 1)

None == <<"N", "o", "n", "e">>

\* main.py:302-316: the first of the three patterns that matches
ExtractPayee(description) ==
    LET NotComma == {description[k] : k \in 1..Len(description)} \ {","}
        a == CaptureAfter(description, IncomingSBP, NotComma)
        b == CaptureAfter(description, OutgoingSBP, NotComma)
        c == CaptureAfter(description, Purchase, MerchantChar)
    IN  IF a # <<>> THEN Strip(a)
        ELSE IF b # <<>> THEN Strip(b)
        ELSE IF c # <<>> THEN Strip(c)
        ELSE None

---------------------------------------------------------------------------
(* convert_to_zenmoney_format (main.py:141-351) *)

\* x or y
Or(x, y) == IF x # <<>> THEN x ELSE y

\* A slip: the outcome keeps the sign of the amount.
RecordSignedOutcome(id, description, date, amount_str, amount_in_cents, res) ==
    [id |-> id,
     user |-> res.user_id,
     deleted |-> FALSE,
     incomeInstrument |-> res.rub_instrument,
     incomeAccount |-> IF is_income(amount_str) THEN res.account_id ELSE None,
     income |-> IF is_income(amount_str) THEN amount_in_cents ELSE 0,
     outcomeInstrument |-> res.rub_instrument,
     outcomeAccount |-> IF ~is_income(amount_str) THEN res.account_id ELSE None,
     outcome |-> IF ~is_income(amount_str) THEN amount_in_cents ELSE 0,
     payee |-> ExtractPayee(description),
     comment |-> description,
     date |-> date]

\* main.py:319-347: the record of one transaction (the fields that are
\* always None or [] are left out; uuid4 gives each record its own id, here
\* the position of the transaction in the input)
Record(id, description, date, amount_str, amount_in_cents, res) ==
    [id |-> id,
     user |-> res.user_id,
     deleted |-> FALSE,
     incomeInstrument |-> res.rub_instrument,
     incomeAccount |-> IF is_income(amount_str) THEN res.account_id ELSE None,
     income |-> IF is_income(amount_str) THEN amount_in_cents ELSE 0,
     outcomeInstrument |-> res.rub_instrument,
     outcomeAccount |-> IF ~is_income(amount_str) THEN res.account_id ELSE None,
     outcome |-> IF ~is_income(amount_str) THEN Abs(amount_in_cents) ELSE 0,
     payee |-> ExtractPayee(description),
     comment |-> description,
     date |-> date]

\* A slip: the check for a zero amount (main.py:295-296) is missing.
ConvertOneKeepsZero(id, txn, res, pads) ==
    LET description == Strip(txn.Description)
        date_str == Or(txn.Processing_Date, txn.Transaction_DateTime)
        amount_str == Or(txn.Account_Amount, txn.Transaction_Amount)
        dt == NormalizeDate(date_str)
        amt == ParseAmount(amount_str)
    IN  IF description = <<>> \/ date_str = <<>> \/ amount_str = <<>> THEN <<>>
        ELSE IF ~dt.ok THEN <<>>
        ELSE IF ~amt.ok THEN <<>>
        ELSE <<Record(id, description, strftime(dt, pads), amount_str,
                      amt.amount_in_cents, res)>>

\* main.py:185-349: the body of the loop for one transaction: the records
\* it appends (one or none)
ConvertOne(id, txn, res, pads) ==
    LET description == Strip(txn.Description)
        date_str == Or(txn.Processing_Date, txn.Transaction_DateTime)
        amount_str == Or(txn.Account_Amount, txn.Transaction_Amount)
        dt == NormalizeDate(date_str)
        amt == ParseAmount(amount_str)
    IN  IF description = <<>> \/ date_str = <<>> \/ amount_str = <<>> THEN <<>>
        ELSE IF ~dt.ok THEN <<>>
        ELSE IF ~amt.ok THEN <<>>
        ELSE IF amt.amount_in_cents = 0 THEN <<>>
        ELSE <<Record(id, description, strftime(dt, pads), amount_str,
                      amt.amount_in_cents, res)>>

\* main.py:162: the ids of the accounts with the title
AccountIds(data, title) ==
    LET hit == SelectSeq(data.account, LAMBDA a : a.title = title)
    IN  [k \in 1..Len(hit) |-> hit[k].id]

RUB == <<"R", "U", "B">>
RoubleTitle == <<"R", "o", "u", "b", "l", "e">>

\* A slip: without a rouble instrument the first instrument is taken.
RubInstrumentOrFirst(data) ==
    LET hit == SelectSeq(data.instrument,
                         LAMBDA inst : inst.shortTitle = RUB \/ inst.title = RoubleTitle)
    IN  IF hit # <<>> THEN hit[1].id
        ELSE IF data.instrument # <<>> THEN data.instrument[1].id
        ELSE None

\* main.py:172-176: the id of the first rouble instrument, or None
RubInstrument(data) ==
    LET hit == SelectSeq(data.instrument,
                         LAMBDA inst : inst.shortTitle = RUB \/ inst.title = RoubleTitle)
    IN  IF hit = <<>> THEN None ELSE hit[1].id

\* main.py:169
UserId(data) == IF data.user # <<>> THEN data.user[1].id ELSE <<"1">>

FetchFailed == [failed |-> TRUE, account |-> <<>>, instrument |-> <<>>, user |-> <<>>]

Unresolved == [account_id |-> None, rub_instrument |-> None, user_id |-> None]

\* main.py:160-182: get_zenmoney_data, then the account, the user and the
\* rouble instrument; any of the three raises can end the call here.
Resolve ==
    /\ cpc = "start"
    /\ IF zenmoney_data.failed
          \/ AccountIds(zenmoney_data, account_title) = <<>>
          \/ RubInstrument(zenmoney_data) = None
       THEN /\ cpc' = "raised"
            /\ resolved' = resolved
       ELSE /\ cpc' = "loop"
            /\ resolved' = [account_id |-> AccountIds(zenmoney_data, account_title)[1],
                            rub_instrument |-> RubInstrument(zenmoney_data),
                            user_id |-> UserId(zenmoney_data)]
    /\ fetches' = fetches + 1
    /\ UNCHANGED <<txns, zenmoney_data, account_title, n, zenmoney_transactions, pads_year>>
    /\ UNCHANGED <<parseVars, otherVars>>

\* A slip: a transaction that gives no record ends the loop.
ConvertTxnAborting ==
    /\ cpc = "loop"
    /\ n < Len(txns)
    /\ n' = n + 1
    /\ zenmoney_transactions' =
           zenmoney_transactions \o ConvertOne(n + 1, txns[n + 1], resolved, pads_year)
    /\ cpc' = IF ConvertOne(n + 1, txns[n + 1], resolved, pads_year) = <<>>
              THEN "done" ELSE cpc
    /\ UNCHANGED <<txns, zenmoney_data, account_title, resolved, pads_year>>
    /\ UNCHANGED <<parseVars, fetches, otherVars>>

\* main.py:184-349: one iteration of the loop
ConvertTxn ==
    /\ cpc = "loop"
    /\ n < Len(txns)
    /\ n' = n + 1
    /\ zenmoney_transactions' =
           zenmoney_transactions \o ConvertOne(n + 1, txns[n + 1], resolved, pads_year)
    /\ UNCHANGED <<txns, zenmoney_data, account_title, resolved, pads_year, cpc>>
    /\ UNCHANGED <<parseVars, fetches, otherVars>>

\* main.py:350-351
Return ==
    /\ cpc = "loop"
    /\ n = Len(txns)
    /\ cpc' = "done"
    /\ UNCHANGED <<txns, zenmoney_data, account_title, resolved, n,
                   zenmoney_transactions, pads_year>>
    /\ UNCHANGED <<parseVars, fetches, otherVars>>

ConvertNext == Resolve \/ ConvertTxn \/ Return

---------------------------------------------------------------------------
(* parse_bank_statement (main.py:21-110)                                   *)
(*                                                                         *)
(* The text is a sequence of tokens, each a maximal piece of text one of   *)
(* the regular expressions of the function matches, with its characters:   *)
(*   "anchor"  DD.MM.YYYY v HH:MM, the pattern of main.py:40               *)
(*   "date"    DD.MM.YYYY alone, the pattern of main.py:67 (which also     *)
(*             matches the first ten characters of an anchor)              *)
(*   "card"    *NNNN, the pattern of main.py:73                            *)
(*   "amount"  sign, numeral, rouble mark: the pattern of main.py:77       *)
(*   "page"    a page counter, removed by main.py:29                       *)
(*   "notice"  the continuation notice, removed by main.py:30              *)
(*   "balance" an opening or closing balance, from its two words to the    *)
(*             first rouble mark after them, removed by main.py:31-32      *)
(*   "word"    other text of one line, without signs or rouble marks       *)
(*   "nl"      a line break                                                *)
(* Tokens of one line are one blank apart.  Positions are token indices.   *)

Token(kind, s) == [kind |-> kind, s |-> s]

NL == Token("nl", <<"\n">>)

\* main.py:29-32: the boilerplate removed before segmentation
Boilerplate == {"page", "notice", "balance"}

Sanitize(t) == SelectSeq(t, LAMBDA tok : tok.kind \notin Boilerplate)

\* main.py:43: the positions of the anchors, in increasing order
RECURSIVE FindAnchors(_, _)
FindAnchors(t, p) ==
    IF p > Len(t) THEN <<>>
    ELSE (IF t[p].kind = "anchor" THEN <<p>> ELSE <<>>) \o FindAnchors(t, p + 1)

\* main.py:47: match.start(); the anchor is one token, so match.end() is the
\* position after it
DateStart(ms, k) == ms[k]
MatchEnd(ms, k) == ms[k] + 1

\* A slip: the description starts at the previous anchor, not after it.
PrevEndAtAnchor(ms, k) == IF k = 1 THEN 1 ELSE DateStart(ms, k - 1)

\* main.py:53-56: prev_end, the first position of the description region
PrevEnd(ms, k) == IF k = 1 THEN 1 ELSE MatchEnd(ms, k - 1)

\* main.py:64: after_date = text[match.end():], as the positions lo..hi
AfterDate(t, ms, k) == [lo |-> MatchEnd(ms, k), hi |-> Len(t)]

\* The positions of lo..hi whose token is of one of the kinds, in order.
RECURSIVE Positions(_, _, _, _)
Positions(t, lo, hi, kinds) ==
    IF lo > hi THEN <<>>
    ELSE (IF t[lo].kind \in kinds THEN <<lo>> ELSE <<>>) \o Positions(t, lo + 1, hi, kinds)

\* The last position of the line of p.
RECURSIVE LineEnd(_, _, _)
LineEnd(t, p, hi) ==
    IF p >= hi \/ t[p + 1].kind = "nl" THEN p ELSE LineEnd(t, p + 1, hi)

\* main.py:60: re.sub(r'[+\-~]\s*\d.*?R\s*$', '', description, MULTILINE):
\* on each line that ends with an amount, the text from the first amount of
\* the line on goes.  The positions of lo..hi that stay.
RECURSIVE StripAmounts(_, _, _, _)
StripAmounts(t, lo, hi, cut) ==
    IF lo > hi THEN <<>>
    ELSE IF t[lo].kind = "nl" THEN <<lo>> \o StripAmounts(t, lo + 1, hi, FALSE)
    ELSE LET cutNow == cut \/ (t[lo].kind = "amount" /\ t[LineEnd(t, lo, hi)].kind = "amount")
         IN  (IF cutNow THEN <<>> ELSE <<lo>>) \o StripAmounts(t, lo + 1, hi, cutNow)

\* main.py:61: the characters of the tokens at the positions, line breaks
\* and blanks collapsed to one blank, stripped
RECURSIVE JoinTokens(_, _)
JoinTokens(t, ps) ==
    LET words == SelectSeq(ps, LAMBDA p : t[p].kind # "nl")
    IN  IF words = <<>> THEN <<>>
        ELSE IF Len(words) = 1 THEN t[words[1]].s
        ELSE t[words[1]].s \o <<" ">> \o JoinTokens(t, Tail(words))

\* main.py:58-61
Description(t, ms, k) ==
    JoinTokens(t, StripAmounts(t, PrevEnd(ms, k), DateStart(ms, k) - 1, FALSE))

\* The groups of the pattern of main.py:77 in an amount token
AmountSign(tok) == tok.s[1]
AmountValue(tok) == Strip(SubSeq(tok.s, 2, Len(tok.s) - 1))

\* main.py:84-89
clean_amount(sign, value) ==
    <<IF sign = "~" THEN "-" ELSE sign>>
        \o CommaToDot(SelectSeq(value, LAMBDA c : c # " "))

\* main.py:95: the words of a table heading
Keywords == {<<"O", "p", "i", "s", "a", "n", "i", "e">>, <<"D", "a", "t", "a", " ", "i", " ", "v", "r", "e", "m", "y", "a">>, <<"M", "S", "K">>, <<"S", "t", "r", "a", "n", "i", "c", "a">>}

Contains(s, sub) == \E p \in 1..Len(s) : OccursAt(s, sub, p)

MinDescription == 5

\* A slip: the check of the length of the description (main.py:98-99) is
\* missing.
CandidateAnyLength(t, ms, k) ==
    LET after == AfterDate(t, ms, k)
        dates == Positions(t, after.lo, after.hi, {"date", "anchor"})
        cards == Positions(t, after.lo, after.hi, {"card"})
        amounts == Positions(t, after.lo, after.hi, {"amount"})
        description == Description(t, ms, k)
        found == dates # <<>> /\ Len(amounts) >= 2
    IN  [anchor |-> DateStart(ms, k),
         description |-> [lo |-> PrevEnd(ms, k), hi |-> DateStart(ms, k) - 1],
         after |-> after,
         date_at |-> IF dates = <<>> THEN 0 ELSE dates[1],
         card_at |-> IF cards = <<>> THEN 0 ELSE cards[1],
         transaction_amount_at |-> IF Len(amounts) >= 1 THEN amounts[1] ELSE 0,
         account_amount_at |-> IF Len(amounts) >= 2 THEN amounts[2] ELSE 0,
         emitted |-> /\ found
                     /\ \A w \in Keywords : ~Contains(description, w)]

\* main.py:45-108: what one iteration of the loop finds for anchor k and
\* where it finds it (0: not found); emitted tells whether it appends.
Candidate(t, ms, k) ==
    LET after == AfterDate(t, ms, k)
        dates == Positions(t, after.lo, after.hi, {"date", "anchor"})
        cards == Positions(t, after.lo, after.hi, {"card"})
        amounts == Positions(t, after.lo, after.hi, {"amount"})
        description == Description(t, ms, k)
        found == dates # <<>> /\ Len(amounts) >= 2
    IN  [anchor |-> DateStart(ms, k),
         description |-> [lo |-> PrevEnd(ms, k), hi |-> DateStart(ms, k) - 1],
         after |-> after,
         date_at |-> IF dates = <<>> THEN 0 ELSE dates[1],
         card_at |-> IF cards = <<>> THEN 0 ELSE cards[1],
         transaction_amount_at |-> IF Len(amounts) >= 1 THEN amounts[1] ELSE 0,
         account_amount_at |-> IF Len(amounts) >= 2 THEN amounts[2] ELSE 0,
         emitted |-> /\ found
                     /\ \A w \in Keywords : ~Contains(description, w)
                     /\ Len(description) >= MinDescription]

\* main.py:101-108: the transaction of a candidate that is emitted
Transaction(t, ms, k) ==
    LET c == Candidate(t, ms, k)
    IN  [Description |-> Description(t, ms, k),
         Transaction_DateTime |-> t[c.anchor].s,
         Processing_Date |-> SubSeq(t[c.date_at].s, 1, 10),
         Card |-> IF c.card_at = 0 THEN <<>> ELSE t[c.card_at].s,
         Transaction_Amount |-> clean_amount(AmountSign(t[c.transaction_amount_at]),
                                             AmountValue(t[c.transaction_amount_at])),
         Account_Amount |-> clean_amount(AmountSign(t[c.account_amount_at]),
                                         AmountValue(t[c.account_amount_at]))]

\* main.py:26-43: the boilerplate goes, the anchors are found
ParseStart ==
    /\ ppc = "start"
    /\ text' = Sanitize(text)
    /\ matches' = FindAnchors(Sanitize(text), 1)
    /\ ppc' = "loop"
    /\ UNCHANGED <<i, transactions, regions>>
    /\ UNCHANGED <<convertVars, fetches, otherVars>>

\* main.py:45-108: one iteration of the loop, for anchor i + 1
ParseAnchor ==
    /\ ppc = "loop"
    /\ i < Len(matches)
    /\ i' = i + 1
    /\ regions' = Append(regions, Candidate(text, matches, i + 1))
    /\ transactions' = IF Candidate(text, matches, i + 1).emitted
                       THEN Append(transactions, Transaction(text, matches, i + 1))
                       ELSE transactions
    /\ UNCHANGED <<text, matches, ppc>>
    /\ UNCHANGED <<convertVars, fetches, otherVars>>

\* main.py:109-110
ParseReturn ==
    /\ ppc = "loop"
    /\ i = Len(matches)
    /\ ppc' = "done"
    /\ UNCHANGED <<text, matches, i, transactions, regions>>
    /\ UNCHANGED <<convertVars, fetches, otherVars>>

ParseNext == ParseStart \/ ParseAnchor \/ ParseReturn

---------------------------------------------------------------------------
(* Inputs *)

\* parse_bank_statement is not running
ParseIdle ==
    /\ text = <<>>
    /\ matches = <<>>
    /\ i = 0
    /\ transactions = <<>>
    /\ regions = <<>>
    /\ ppc = "idle"

\* import_transactions is not running
RunIdle ==
    /\ dry_run = FALSE
    /\ confirmed = "unasked"
    /\ posts = <<>>
    /\ rpc = "idle"

\* the removals of main.py:29-32 are not under study
SanitizeIdle ==
    /\ raw = <<>>
    /\ clean = <<>>

\* delete is not running
DeleteIdle ==
    /\ options = <<>>
    /\ ledger = <<>>
    /\ answers = <<>>
    /\ deletions = <<>>
    /\ dpc = "idle"

Title == <<"y", "a", "n", "d", "e", "x">>
OtherTitle == <<"c", "a", "s", "h">>

Account(id, title) == [id |-> id, title |-> title]
Instrument(id, shortTitle, title) == [id |-> id, shortTitle |-> shortTitle, title |-> title]

\* An answer of get_zenmoney_data with the account and the rouble instrument
GoodMeta ==
    [failed |-> FALSE,
     account |-> <<Account(<<"a", "2">>, OtherTitle), Account(<<"a", "1">>, Title)>>,
     instrument |-> <<Instrument(<<"1">>, <<"U", "S", "D">>, <<"D", "o", "l", "l", "a", "r">>),
                      Instrument(<<"2">>, RUB, RoubleTitle)>>,
     user |-> <<[id |-> <<"7">>]>>]

\* What get_zenmoney_data can give: a failure, or accounts, instruments and users.
MetaPool ==
    {FetchFailed,
     GoodMeta,
     [failed |-> FALSE,
      account |-> <<Account(<<"a", "2">>, OtherTitle)>>,
      instrument |-> <<Instrument(<<"2">>, RUB, RoubleTitle)>>,
      user |-> <<[id |-> <<"7">>]>>],
     [failed |-> FALSE,
      account |-> <<Account(<<"a", "1">>, Title)>>,
      instrument |-> <<Instrument(<<"1">>, <<"U", "S", "D">>, <<"D", "o", "l", "l", "a", "r">>)>>,
      user |-> <<[id |-> <<"7">>]>>],
     [failed |-> FALSE,
      account |-> <<Account(<<"a", "1">>, Title)>>,
      instrument |-> <<Instrument(<<"2">>, <<"R", "U", "R">>, RoubleTitle)>>,
      user |-> <<>>]}

Txn(description, datetime_str, processing_date, transaction_amount, account_amount) ==
    [Description |-> description,
     Transaction_DateTime |-> datetime_str,
     Processing_Date |-> processing_date,
     Card |-> <<>>,
     Transaction_Amount |-> transaction_amount,
     Account_Amount |-> account_amount]

GoodDescription == <<"P", "a", "y", " ", "S", "H", "O", "P", "_", "1", " ", "c", "a", "r", "d">>
GoodDate == <<"2", "7", ".", "0", "7", ".", "2", "0", "2", "5">>
GoodAmount == <<"+", "1", "2", "0", "0", ".", "0", "0">>

\* Amount strings: a sign (or none, or a blank before it), digit groups,
\* a decimal part, a currency mark (or none); and strings that are no numeral.
AmountLead == {<<>>, <<"+">>, <<"-">>, <<"~">>, <<" ", "+">>, <<" ", "-">>}
AmountInt == {<<"0">>, <<"1">>, <<"2">>, <<"5", "0", "0">>, <<"1", " ", "2", "0", "0">>}
AmountFrac == {<<>>, <<",", "5", "0">>, <<".", "5", "0">>, <<",", "4", "9">>, <<".", "5", "1">>,
     <<",", "0", "0">>}
AmountMark == {<<>>, <<" ", "R">>}

AmountPool ==
    {lead \o int \o frac \o mark :
        lead \in AmountLead, int \in AmountInt, frac \in AmountFrac, mark \in AmountMark}
    \cup {<<>>, <<"R">>, <<"+">>, <<"+", "-", "5">>, <<"-", "-", "5">>,
     <<"1", ",", "2", "0", "0", ".", "5", "0">>,
     <<"+", " ", "1", "\t", "2", "0", "0", ",", "5", "0">>}

\* Date strings: digit groups a, b, c with separators, after an optional
\* extra digit, before an optional time.
DateLead == {<<>>, <<"1">>}
DateGroupA == {<<"0", "3">>, <<"3">>, <<"1", "2">>, <<"1", "3">>, <<"2", "9">>, <<"3", "1">>,
     <<"0", "0">>, <<"2", "0", "2", "5">>, <<"0", "9", "9", "9">>}
DateGroupB == {<<"0", "4">>, <<"4">>, <<"0", "2">>, <<"1", "2">>, <<"1", "3">>, <<"0", "0">>}
DateGroupC == {<<"2", "0", "2", "5">>, <<"2", "0", "2", "4">>, <<"0", "9", "9", "9">>,
     <<"0", "0", "0", "0">>, <<"2", "5">>, <<"0", "4">>, <<"3", "1">>}
DateSep == {<<".">>, <<"/">>, <<"-">>}
DateTail == {<<>>, <<" ", "v", " ", "0", "8", ":", "1", "6">>, <<" ", "0", "8", ":", "1", "6">>,
     <<"\t", "v", " ", "0", "8", ":", "1", "6">>}

DatePool ==
    {lead \o a \o s1 \o b \o s2 \o c \o tail :
        lead \in DateLead, a \in DateGroupA, s1 \in DateSep, b \in DateGroupB,
        s2 \in DateSep, c \in DateGroupC, tail \in DateTail}
    \cup {<<>>}

DescriptionPool == {<<"P", "a", "y", " ", "S", "H", "O", "P", "_", "1", " ", "c", "a", "r", "d">>,
     <<"I", "n", " ", "S", "B", "P", ",", " ", "I", "v", "a", "n", " ", "P", ",", " ", "b", "a", "n", "k">>,
     <<" ">>}

\* The transactions the lists of Init are made of.
TxnPool ==
    {Txn(GoodDescription, <<>>, GoodDate, <<>>, a) : a \in {<<"+", "1", "2", "0", "0", ".", "5", "0">>, <<"-", "5", "0", "0", ".", "0", "0">>,
     <<"5", "0", "0", ".", "0", "0">>, <<"+", "0", ".", "4", "0">>,
     <<"+", "1", " ", "2", "0", "0", ",", "5", "0", " ", "R">>}}
    \cup {Txn(GoodDescription, <<>>, d, <<>>, GoodAmount) : d \in {<<"3", "1", ".", "0", "2", ".", "2", "0", "2", "5">>,
     <<"0", "3", ".", "0", "4", ".", "2", "0", "2", "5", " ", "0", "8", ":", "1", "6">>}}
    \cup {Txn(<<>>, <<>>, GoodDate, <<>>, GoodAmount),
          Txn(GoodDescription, GoodDate \o <<" ", "v", " ", "0", "8", ":", "1", "6">>, <<>>, GoodAmount, <<>>)}

MaxTxns == 2

TxnLists == UNION {[1..len -> TxnPool] : len \in 0..MaxTxns}

ConvertStart(metas) ==
    /\ zenmoney_data \in metas
    /\ account_title = Title
    /\ resolved = Unresolved
    /\ n = 0
    /\ zenmoney_transactions = <<>>
    /\ pads_year \in BOOLEAN
    /\ cpc = "start"
    /\ fetches = 0

\* convert_to_zenmoney_format on a list of transactions
Init ==
    /\ ParseIdle
    /\ RunIdle /\ SanitizeIdle /\ DeleteIdle
    /\ ConvertStart(MetaPool)
    /\ txns \in TxnLists \cup {<<Txn(d, <<>>, GoodDate, <<>>, a)>> :
                                  d \in DescriptionPool, a \in AmountPool}

Next == ConvertNext

Spec == Init /\ [][Next]_vars

\* convert_to_zenmoney_format on one transaction, over the date strings
InitDate ==
    /\ ParseIdle
    /\ RunIdle /\ SanitizeIdle /\ DeleteIdle
    /\ ConvertStart({FetchFailed, GoodMeta})
    /\ txns \in {<<Txn(GoodDescription, <<>>, d, <<>>, GoodAmount)>> : d \in DatePool}

SpecDate == InitDate /\ [][Next]_vars

\* The statement texts: up to MaxAnchors blocks, each the text before an
\* anchor, the anchor, and what follows it on its line.
AnchorToken == Token("anchor", <<"2", "7", ".", "0", "7", ".", "2", "0", "2", "5", " ", "v", " ", "0", "8", ":", "1", "6">>)
DateToken == Token("date", <<"2", "8", ".", "0", "7", ".", "2", "0", "2", "5">>)
CardToken == Token("card", <<"*", "1", "2", "3", "4">>)
PageToken == Token("page", <<"S", "t", "r", "a", "n", "i", "c", "a", " ", "1", " ", "i", "z", " ", "5">>)
Plus == Token("amount", <<"+", "1", " ", "2", "0", "0", ",", "5", "0", " ", "R">>)
Minus == Token("amount", <<"-", "5", "0", "0", ",", "0", "0", " ", "R">>)
Dash == Token("amount", <<"~", "5", "0", "0", ",", "0", "0", " ", "R">>)
Fee == Token("amount", <<"-", "7", "5", ",", "0", "0", " ", "R">>)

NoticeToken == Token("notice", <<"P", "r", "o", "d", "o", "l", "z", "h", "e", "n", "i", "e">>)
BalanceToken == Token("balance", <<"O", "s", "t", "a", "t", "o", "k", " ", "1", " ", "0", "0", "0", ",", "0", "0", " ", "R">>)

BeforeAnchor ==
    {<<PageToken, NL, Token("word", GoodDescription), NL>>,
     <<NoticeToken, NL, Token("word", <<"a", "b", "c">>), NL>>,
     <<BalanceToken, NL, Token("word", <<"D", "a", "t", "a", " ", "i", " ", "v", "r", "e", "m", "y", "a", " ", "M", "S", "K">>), NL>>}

WellFormedPlus == <<DateToken, Plus, Plus>>
WellFormedMinus == <<DateToken, CardToken, Dash, Minus>>
OneAmount == <<DateToken, Fee>>
NoProcessingDate == <<Minus, Minus>>

AfterAnchor == {WellFormedPlus, WellFormedMinus, OneAmount, NoProcessingDate}

Blocks == {b \o <<AnchorToken>> \o a \o <<NL>> : b \in BeforeAnchor, a \in AfterAnchor}

MaxAnchors == 3

RECURSIVE Flatten(_)
Flatten(bs) == IF bs = <<>> THEN <<>> ELSE Head(bs) \o Flatten(Tail(bs))

TextPool == {Flatten(bs) : bs \in UNION {[1..len -> Blocks] : len \in 0..MaxAnchors}}

\* convert_to_zenmoney_format is not running
ConvertIdle ==
    /\ txns = <<>>
    /\ zenmoney_data = FetchFailed
    /\ account_title = Title
    /\ resolved = Unresolved
    /\ n = 0
    /\ zenmoney_transactions = <<>>
    /\ pads_year = TRUE
    /\ cpc = "idle"
    /\ fetches = 0

\* parse_bank_statement on a statement text
InitParse ==
    /\ text \in TextPool
    /\ matches = <<>>
    /\ i = 0
    /\ transactions = <<>>
    /\ regions = <<>>
    /\ ppc = "start"
    /\ ConvertIdle
    /\ RunIdle /\ SanitizeIdle /\ DeleteIdle

SpecParse == InitParse /\ [][ParseNext]_vars

---------------------------------------------------------------------------
(* The command import_transactions (main.py:548-591) and post_transactions *)
(* (main.py:353-390)                                                       *)

\* main.py:559-561: nothing was parsed; the command returns.
NoTransactions ==
    /\ rpc = "parse"
    /\ ppc = "done"
    /\ transactions = <<>>
    /\ rpc' = "done"
    /\ UNCHANGED <<dry_run, confirmed, posts, fetches>>
    /\ UNCHANGED <<parseVars, convertVars, sanitizeVars, deleteVars>>

\* main.py:556-565: import_transactions hands what parse_bank_statement
\* returned to convert_to_zenmoney_format, unless it is empty.
CallConvert ==
    /\ rpc = "parse"
    /\ ppc = "done"
    /\ cpc = "idle"
    /\ transactions # <<>>
    /\ txns' = transactions
    /\ cpc' = "start"
    /\ rpc' = "convert"
    /\ UNCHANGED <<zenmoney_data, account_title, resolved, n, zenmoney_transactions, pads_year>>
    /\ UNCHANGED <<dry_run, confirmed, posts, fetches>>
    /\ UNCHANGED <<parseVars, sanitizeVars, deleteVars>>

\* main.py:567-569: convert_to_zenmoney_format raised; click.Abort
ConvertAbort ==
    /\ rpc = "convert"
    /\ cpc = "raised"
    /\ rpc' = "aborted"
    /\ UNCHANGED <<dry_run, confirmed, posts, fetches>>
    /\ UNCHANGED <<parseVars, convertVars, sanitizeVars, deleteVars>>

\* main.py:571-579: with --dry-run the records are shown and the command returns.
DryRun ==
    /\ rpc = "convert"
    /\ cpc = "done"
    /\ dry_run
    /\ rpc' = "done"
    /\ UNCHANGED <<dry_run, confirmed, posts, fetches>>
    /\ UNCHANGED <<parseVars, convertVars, sanitizeVars, deleteVars>>

\* main.py:581-583: click.confirm; the answer is the user's.
Confirm ==
    /\ rpc = "convert"
    /\ cpc = "done"
    /\ ~dry_run
    /\ \E answer \in BOOLEAN :
           /\ confirmed' = IF answer THEN "yes" ELSE "no"
           /\ rpc' = IF answer THEN "post" ELSE "done"
    /\ UNCHANGED <<dry_run, posts, fetches>>
    /\ UNCHANGED <<parseVars, convertVars, sanitizeVars, deleteVars>>

\* A slip: a failed submission is sent once more.
PostTransactionsRetrying ==
    /\ rpc = "post"
    /\ fetches' = fetches + 1
    /\ \E fetched, accepted \in BOOLEAN :
           IF fetched
           THEN /\ posts' = Append(posts, zenmoney_transactions)
                /\ rpc' = IF accepted THEN "done"
                          ELSE IF posts = <<>> THEN "post" ELSE "aborted"
           ELSE /\ posts' = posts
                /\ rpc' = "aborted"
    /\ UNCHANGED <<dry_run, confirmed>>
    /\ UNCHANGED <<parseVars, convertVars, sanitizeVars, deleteVars>>

\* main.py:585-591 and post_transactions (main.py:367-390): get_zenmoney_data
\* for the serverTimestamp (it can raise), then one requests.post with the
\* whole list; any status but 200 raises, and the command aborts.
PostTransactions ==
    /\ rpc = "post"
    /\ fetches' = fetches + 1
    /\ \E fetched, accepted \in BOOLEAN :
           IF fetched
           THEN /\ posts' = Append(posts, zenmoney_transactions)
                /\ rpc' = IF accepted THEN "done" ELSE "aborted"
           ELSE /\ posts' = posts
                /\ rpc' = "aborted"
    /\ UNCHANGED <<dry_run, confirmed>>
    /\ UNCHANGED <<parseVars, convertVars, sanitizeVars, deleteVars>>

ImportNext ==
    \/ ParseNext
    \/ NoTransactions
    \/ CallConvert
    \/ ConvertNext
    \/ ConvertAbort
    \/ DryRun
    \/ Confirm
    \/ PostTransactions

\* The texts of the import: spans after a description long enough, and a
\* well-formed span after one too short
Zero == Token("amount", <<"+", "0", ",", "0", "0", " ", "R">>)
ZeroAmounts == <<DateToken, Zero, Zero>>
ShortDescription == <<"a", "b", "c">>

ImportBlocks ==
    {<<Token("word", GoodDescription), NL, AnchorToken>> \o a \o <<NL>> :
        a \in {WellFormedPlus, WellFormedMinus, OneAmount, ZeroAmounts}}
    \cup {<<Token("word", ShortDescription), NL, AnchorToken>> \o WellFormedPlus \o <<NL>>}

ImportTexts == {Flatten(bs) : bs \in UNION {[1..len -> ImportBlocks] : len \in 0..MaxAnchors}}

\* import_transactions: parse_bank_statement, convert_to_zenmoney_format on
\* what it returns, then the submission
InitImport ==
    /\ text \in ImportTexts
    /\ matches = <<>>
    /\ i = 0
    /\ transactions = <<>>
    /\ regions = <<>>
    /\ ppc = "start"
    /\ txns = <<>>
    /\ zenmoney_data \in MetaPool
    /\ account_title = Title
    /\ resolved = Unresolved
    /\ n = 0
    /\ zenmoney_transactions = <<>>
    /\ pads_year \in BOOLEAN
    /\ cpc = "idle"
    /\ fetches = 0
    /\ dry_run \in BOOLEAN
    /\ confirmed = "unasked"
    /\ posts = <<>>
    /\ rpc = "parse"
    /\ SanitizeIdle /\ DeleteIdle

SpecImport == InitImport /\ [][ImportNext]_vars

---------------------------------------------------------------------------
(* The removals of main.py:29-32, on the characters of the text            *)
(*                                                                         *)
(* Here the text is a sequence of units: a digit, a line break, the rouble *)
(* mark "R", or one of the fixed words of the four patterns, written       *)
(*     "P"  for 'Страница ' (with its blank),   "o"  for ' из ',           *)
(*     "N"  for the continuation notice of main.py:30,                     *)
(*     "I"  for the two words of main.py:31,  "O"  for those of main.py:32 *)
(* (the Sanitize of ParseStart is these removals on texts whose            *)
(* boilerplate stands apart, each piece one token).                        *)

\* The length of the match of a pattern at position p, 0 when there is none.
\* "page": the word, digits, ' из ', digits (\d+ takes every digit).
\* "notice": the phrase.
\* "opening", "closing": the words, then .*? up to the first rouble mark of
\* the same line ('.' does not match a line break).
PatternAt(s, p, pattern) ==
    CASE pattern = "page" ->
           LET d1 == RunLength(s, p + 1, Digit)
               d2 == RunLength(s, p + d1 + 2, Digit)
           IN  IF /\ s[p] = "P"
                  /\ d1 >= 1
                  /\ p + d1 + 1 <= Len(s)
                  /\ s[p + d1 + 1] = "o"
                  /\ d2 >= 1
               THEN d1 + d2 + 2 ELSE 0
      [] pattern = "notice" -> IF s[p] = "N" THEN 1 ELSE 0
      [] pattern \in {"opening", "closing"} ->
           LET word == IF pattern = "opening" THEN "I" ELSE "O"
               line == RunLength(s, p + 1, {"P", "o", "N", "I", "O", "R"} \cup Digit)
               marks == {q \in (p + 1)..(p + line) : s[q] = "R"}
           IN  IF s[p] = word /\ marks # {}
               THEN (CHOOSE q \in marks : \A q2 \in marks : q <= q2) - p + 1
               ELSE 0

\* re.sub(pattern, '', s), from position p on: the matches are taken from
\* the left, each search starting after the last match.
RECURSIVE Remove(_, _, _)
Remove(s, p, pattern) ==
    IF p > Len(s) THEN <<>>
    ELSE IF PatternAt(s, p, pattern) > 0
         THEN Remove(s, p + PatternAt(s, p, pattern), pattern)
         ELSE <<s[p]>> \o Remove(s, p + 1, pattern)

\* main.py:29-32: the four removals, in the order of the source
Removals(s) ==
    Remove(Remove(Remove(Remove(s, 1, "page"), 1, "notice"), 1, "opening"), 1, "closing")

\* The removals applied to the text, then to what they gave.
RemoveBoilerplate ==
    /\ raw # <<>>
    /\ Len(clean) < 2
    /\ clean' = Append(clean, Removals(IF clean = <<>> THEN raw ELSE clean[Len(clean)]))
    /\ UNCHANGED <<raw, fetches, runVars, deleteVars>>
    /\ UNCHANGED <<parseVars, convertVars>>

SanitizeNext == RemoveBoilerplate

Unit == {"P", "o", "N", "I", "O", "R", "1", "\n"}

MaxText == 5

InitSanitize ==
    /\ raw \in UNION {[1..len -> Unit] : len \in 1..MaxText}
    /\ clean = <<>>
    /\ ParseIdle
    /\ ConvertIdle
    /\ RunIdle /\ DeleteIdle

SpecSanitize == InitSanitize /\ [][SanitizeNext]_vars

---------------------------------------------------------------------------
(* The command delete (main.py:594-623) and delete_transactions            *)
(* (main.py:393-515)                                                       *)

\* bool(x) of an option or a field: None and '' are false
Truthy(x) == x # None /\ x # <<>>

\* x or y
OrNone(x, y) == IF Truthy(x) THEN x ELSE y

\* ord(c) of the characters of a date
Ord(c) == IF c = "-" THEN 45 ELSE 48 + DigitVal(c)

\* a < b of two strings: by the first character that differs, a proper
\* prefix first
RECURSIVE StrLess(_, _)
StrLess(a, b) ==
    IF b = <<>> THEN FALSE
    ELSE IF a = <<>> THEN TRUE
    ELSE IF a[1] = b[1] THEN StrLess(Tail(a), Tail(b))
    ELSE Ord(a[1]) < Ord(b[1])

\* main.py:432-450: whether the loop keeps a fetched transaction
KeptForDeletion(txn, account_id, start_date, end_date) ==
    /\ ~txn.deleted
    /\ Truthy(account_id) => OrNone(txn.incomeAccount, txn.outcomeAccount) = account_id
    /\ ~(Truthy(start_date) /\ StrLess(txn.date, start_date))
    /\ ~(Truthy(end_date) /\ StrLess(end_date, txn.date))

\* main.py:464-492: the record sent for a transaction (of the fields copied
\* unchanged, those the model has)
DeletedTxn(txn, user_id) ==
    [id |-> txn.id,
     created |-> txn.created,
     user |-> user_id,
     deleted |-> TRUE,
     incomeAccount |-> txn.incomeAccount,
     outcomeAccount |-> txn.outcomeAccount,
     date |-> txn.date]

\* main.py:430-450, 462-493: the records of the transactions kept, in order
RECURSIVE TransactionsToDelete(_, _, _, _, _)
TransactionsToDelete(fetched, account_id, start_date, end_date, user_id) ==
    IF fetched = <<>> THEN <<>>
    ELSE (IF KeptForDeletion(Head(fetched), account_id, start_date, end_date)
          THEN <<DeletedTxn(Head(fetched), user_id)>> ELSE <<>>)
         \o TransactionsToDelete(Tail(fetched), account_id, start_date, end_date, user_id)

\* main.py:599: click.confirmation_option asks before the body runs (or
\* --yes answers it); a refusal aborts.
ConfirmDelete ==
    /\ dpc = "start"
    /\ \E answer \in BOOLEAN :
           /\ answers' = Append(answers, answer)
           /\ dpc' = IF answer THEN "guard" ELSE "aborted"
    /\ UNCHANGED <<options, ledger, deletions, fetches, runVars, sanitizeVars>>
    /\ UNCHANGED <<parseVars, convertVars>>

\* A slip: --all goes on without its own confirmation.
GuardUnconfirmed ==
    /\ dpc = "guard"
    /\ dpc' = IF \/ options.delete_all
                 \/ Truthy(options.account)
                 \/ Truthy(options.start_date) \/ Truthy(options.end_date)
              THEN "call" ELSE "aborted"
    /\ UNCHANGED <<options, ledger, answers, deletions, fetches, runVars, sanitizeVars>>
    /\ UNCHANGED <<parseVars, convertVars>>

\* main.py:605-616: --all asks once more and returns on a refusal; without
\* --all, an account or a date is needed, or the command aborts.
Guard ==
    /\ dpc = "guard"
    /\ IF options.delete_all
       THEN \E answer \in BOOLEAN :
                /\ answers' = Append(answers, answer)
                /\ dpc' = IF answer THEN "call" ELSE "done"
       ELSE /\ answers' = answers
            /\ dpc' = IF \/ Truthy(options.account)
                         \/ Truthy(options.start_date) \/ Truthy(options.end_date)
                      THEN "call" ELSE "aborted"
    /\ UNCHANGED <<options, ledger, deletions, fetches, runVars, sanitizeVars>>
    /\ UNCHANGED <<parseVars, convertVars>>

\* main.py:618-623 and delete_transactions (main.py:411-515): the fetch,
\* the account of the title (ValueError when there is none), the
\* transactions kept; nothing is sent when none is kept, else one
\* requests.post with their records, and any status but 200 raises.
DeleteTransactions ==
    /\ dpc = "call"
    /\ fetches' = fetches + 1
    /\ LET account_ids == AccountIds(zenmoney_data, options.account)
           account_id == IF Truthy(options.account) THEN account_ids[1] ELSE None
           deleted_transactions ==
               TransactionsToDelete(ledger, account_id, options.start_date,
                                    options.end_date, UserId(zenmoney_data))
       IN  IF zenmoney_data.failed \/ (Truthy(options.account) /\ account_ids = <<>>)
           THEN /\ dpc' = "aborted"
                /\ deletions' = deletions
           ELSE IF deleted_transactions = <<>>
           THEN /\ dpc' = "done"
                /\ deletions' = deletions
           ELSE /\ deletions' = Append(deletions, deleted_transactions)
                /\ \E accepted \in BOOLEAN : dpc' = IF accepted THEN "done" ELSE "aborted"
    /\ UNCHANGED <<options, ledger, answers, runVars, sanitizeVars>>
    /\ UNCHANGED <<parseVars, convertVars>>

DeleteNext == ConfirmDelete \/ Guard \/ DeleteTransactions

\* The transactions of the service: with the account a1 of Title on both
\* sides, on one side only, on one side of a transfer, or on neither
LedgerTxn(id, incomeAccount, outcomeAccount, date, deleted) ==
    [id |-> id, created |-> <<"t">> \o id, deleted |-> deleted,
     incomeAccount |-> incomeAccount, outcomeAccount |-> outcomeAccount, date |-> date]

A1 == <<"a", "1">>
A2 == <<"a", "2">>
BeforeRange == <<"2", "0", "2", "5", "-", "0", "6", "-", "3", "0">>
RangeStart == <<"2", "0", "2", "5", "-", "0", "7", "-", "0", "1">>
RangeEnd == <<"2", "0", "2", "5", "-", "0", "7", "-", "3", "1">>
AfterRange == <<"2", "0", "2", "5", "-", "0", "8", "-", "0", "1">>

LedgerPool ==
    {LedgerTxn(<<"1">>, A1, A1, BeforeRange, FALSE),
     LedgerTxn(<<"2">>, A1, A1, RangeStart, FALSE),
     LedgerTxn(<<"3">>, A1, A1, RangeEnd, FALSE),
     LedgerTxn(<<"4">>, A1, A1, AfterRange, FALSE),
     LedgerTxn(<<"5">>, A1, None, RangeStart, FALSE),
     LedgerTxn(<<"6">>, None, A1, RangeStart, FALSE),
     LedgerTxn(<<"7">>, A2, A1, RangeStart, FALSE),
     LedgerTxn(<<"8">>, A1, A2, RangeEnd, FALSE),
     LedgerTxn(<<"9">>, A2, A2, RangeStart, FALSE),
     LedgerTxn(<<"1", "0">>, A1, A1, RangeStart, TRUE)}

MaxLedger == 2

Ledgers ==
    {l \in UNION {[1..len -> LedgerPool] : len \in 0..MaxLedger} :
        \A j, k \in 1..Len(l) : j # k => l[j] # l[k]}

\* the command delete, with its options
InitDelete ==
    /\ options \in [account : {None, <<>>, Title, <<"o", "l", "d">>},
                    start_date : {None, RangeStart},
                    end_date : {None, RangeEnd},
                    delete_all : BOOLEAN]
    /\ ledger \in Ledgers
    /\ answers = <<>>
    /\ deletions = <<>>
    /\ dpc = "start"
    /\ ParseIdle
    /\ txns = <<>>
    /\ zenmoney_data \in {FetchFailed, GoodMeta}
    /\ account_title = Title
    /\ resolved = Unresolved
    /\ n = 0
    /\ zenmoney_transactions = <<>>
    /\ pads_year = TRUE
    /\ cpc = "idle"
    /\ fetches = 0
    /\ RunIdle /\ SanitizeIdle

SpecDelete == InitDelete /\ [][DeleteNext]_vars

---------------------------------------------------------------------------
(* Claims about parse_bank_statement *)

\* The span of anchor k: the positions after it, up to the next anchor or
\* the end of the text.
SpanEnd(k) == IF k < Len(matches) THEN matches[k + 1] - 1 ELSE Len(text)
SpanAmounts(k) == Positions(text, matches[k] + 1, SpanEnd(k), {"amount"})
SpanDates(k) == Positions(text, matches[k] + 1, SpanEnd(k), {"date"})

\* A span with its processing date and both amounts, after a description
\* that passes the checks of main.py:95-99
WellFormed(k, sign) ==
    /\ SpanDates(k) # <<>>
    /\ Len(SpanAmounts(k)) = 2
    /\ AmountSign(text[SpanAmounts(k)[2]]) = sign
    /\ Len(Description(text, matches, k)) >= MinDescription
    /\ \A w \in Keywords : ~Contains(Description(text, matches, k), w)

\* A span that lacks its second amount and nothing else
LacksSecondAmount(k) ==
    /\ SpanDates(k) # <<>>
    /\ Len(SpanAmounts(k)) = 1
    /\ Len(Description(text, matches, k)) >= MinDescription
    /\ \A w \in Keywords : ~Contains(Description(text, matches, k), w)

ThreeAnchorsOneMalformed ==
    /\ Len(matches) = 3
    /\ \E a, b, c \in 1..3 :
           /\ {a, b, c} = 1..3
           /\ WellFormed(a, "+")
           /\ WellFormed(b, "-")
           /\ LacksSecondAmount(c)

\* C1: a text of three anchors, two spans well-formed (one with a '+'
\* account amount, one with a '-') and one span without its second amount,
\* gives exactly 2 transactions, wherever the malformed span sits, and
\* convert_to_zenmoney_format makes exactly 2 records of them, one income
\* and one outcome, when the account and the currency resolve.
C1_TwoOfThree ==
    (ppc = "done" /\ ThreeAnchorsOneMalformed) =>
        /\ Len(transactions) = 2
        /\ cpc = "done" =>
               /\ Len(zenmoney_transactions) = 2
               /\ \E j, k \in 1..2 : /\ zenmoney_transactions[j].income > 0
                                      /\ zenmoney_transactions[k].outcome > 0

\* C2: the processing date, the card and both amounts of an emitted
\* transaction are found in the span of its own anchor, never at or after
\* the next anchor.
InSpan(k, p) == p = 0 \/ p <= SpanEnd(k)

C2_FieldsFromOwnSpan ==
    \A k \in 1..Len(regions) :
        regions[k].emitted =>
            /\ InSpan(k, regions[k].date_at)
            /\ InSpan(k, regions[k].card_at)
            /\ InSpan(k, regions[k].transaction_amount_at)
            /\ InSpan(k, regions[k].account_amount_at)

\* Regions as sets of positions
Interval(r) == r.lo..r.hi
RegionsOf(c) == {Interval(c.description), {c.anchor}, Interval(c.after)}
OwnRegionsOf(c) == {Interval(c.description), {c.anchor}}
AllBefore(A, B) == \A x \in A, y \in B : x < y

---------------------------------------------------------------------------
(* Claims about convert_to_zenmoney_format *)

DateStr(txn) == Or(txn.Processing_Date, txn.Transaction_DateTime)
AmountStr(txn) == Or(txn.Account_Amount, txn.Transaction_Amount)

Records == {zenmoney_transactions[j] : j \in 1..Len(zenmoney_transactions)}

\* The records made of the k-th input transaction
RecordsOf(k) == {r \in Records : r.id = k}

\* C4: every record has income and outcome both non-negative integers, one
\* of them nonzero and the other zero.
C4_OneSideNonzero ==
    \A r \in Records :
        /\ r.income \in Nat
        /\ r.outcome \in Nat
        /\ (r.income # 0) # (r.outcome # 0)

\* Both kinds of record have been returned.
C4_Witness ==
    /\ cpc = "done"
    /\ \E r \in Records : r.income > 0
    /\ \E r \in Records : r.outcome > 0

\* C5: the populated side of a record follows the sign of the normalized
\* amount: positive gives income, negative gives outcome, and an amount
\* string without a leading sign character (or with a blank before the
\* sign) counts as positive.
C5_SideFollowsSign ==
    \A r \in Records :
        LET amount == ParseAmount(AmountStr(txns[r.id])).amount_in_cents
        IN  /\ amount > 0 => (r.income = amount /\ r.outcome = 0)
            /\ amount < 0 => (r.outcome = 0 - amount /\ r.income = 0)

\* The amount of the transaction is a numeral that rounds to zero.
ZeroAmount(txn) ==
    ParseAmount(AmountStr(txn)).ok /\ ParseAmount(AmountStr(txn)).amount_in_cents = 0

\* The transaction has a description, a date that normalizes and a numeral
\* that does not round to zero.
Convertible(txn) ==
    /\ Strip(txn.Description) # <<>>
    /\ NormalizeDate(DateStr(txn)).ok
    /\ ParseAmount(AmountStr(txn)).ok
    /\ ~ZeroAmount(txn)

\* C6: a transaction whose amount rounds to zero never gives a record; the
\* loop goes on without raising, so that the transactions after it still
\* give theirs; no record has income = 0 and outcome = 0.
C6_ZeroAmountDropped ==
    /\ \A k \in 1..n : ZeroAmount(txns[k]) => RecordsOf(k) = {}
    /\ \A r \in Records : ~(r.income = 0 /\ r.outcome = 0)
    /\ cpc = "raised" => n = 0
    /\ cpc = "done" =>
           /\ n = Len(txns)
           /\ \A k \in 1..Len(txns) : Convertible(txns[k]) => RecordsOf(k) # {}

\* A zero amount came first, and the transaction after it has its record.
C6_Witness ==
    /\ cpc = "done"
    /\ Len(txns) = 2
    /\ ZeroAmount(txns[1])
    /\ Strip(txns[1].Description) # <<>> /\ NormalizeDate(DateStr(txns[1])).ok
    /\ RecordsOf(2) # {}

\* Signed, currency-marked numerals: a sign, digit groups a blank apart, a
\* decimal comma part, the rouble mark.
MarkedNumerals ==
    {sign \o int \o frac \o <<" ", "R">> :
        sign \in {<<"+">>, <<"-">>, <<"~">>},
        int \in {<<"1">>, <<"5", "0", "0">>, <<"1", " ", "2", "0", "0">>},
        frac \in {<<",", "5", "0">>, <<",", "4", "9">>, <<",", "0", "0">>}}

\* The value written, as a fraction num / den
Written(s) == float(CommaToDot(SelectSeq(s, LAMBDA c : c \in Digit \cup {","})))

\* C7: for a signed, currency-marked numeral the amount step does not fail:
\* the transaction gets its record, on the side of the written sign, with
\* the magnitude written.
C7_MarkedNumeralAccepted ==
    \A k \in 1..n :
        (AmountStr(txns[k]) \in MarkedNumerals
            /\ Strip(txns[k].Description) # <<>> /\ NormalizeDate(DateStr(txns[k])).ok)
        => \E r \in RecordsOf(k) :
               LET w == Written(AmountStr(txns[k]))
                   side == IF AmountStr(txns[k])[1] = "+" THEN r.income ELSE r.outcome
               IN  side * w.den = w.num

\* The digit groups a and b a date string begins with, and how many digits
\* each has
LeadingGroups(date_str) ==
    LET c == Strip(date_str)
        la == RunLength(c, 1, Digit)
        lb == RunLength(c, la + 2, Digit)
    IN  [la |-> la, lb |-> lb,
         a |-> ToInt(SubSeq(c, 1, la)),
         b |-> ToInt(SubSeq(c, la + 2, la + 1 + lb))]

\* The string begins with a group a, a separator, a group b, a separator
\* and a third group; a and b are of one or two digits and between 1 and 12.
Ambiguous(date_str) ==
    LET c == Strip(date_str)
        g == LeadingGroups(date_str)
    IN  /\ g.la \in {1, 2} /\ g.lb \in {1, 2}
        /\ g.la + g.lb + 3 <= Len(c)
        /\ c[g.la + 1] \in {".", "/", "-"}
        /\ c[g.la + g.lb + 2] \in {".", "/", "-"}
        /\ c[g.la + g.lb + 3] \in Digit
        /\ g.a \in 1..12 /\ g.b \in 1..12

\* The day and the month of a date as strftime wrote it
DayOf(date) == ToInt(SubSeq(date, Len(date) - 1, Len(date)))
MonthOf(date) == ToInt(SubSeq(date, Len(date) - 4, Len(date) - 3))

\* C8: a date string of three digit groups whose first two, a and b, are
\* both between 1 and 12 gives, by a template or by the fallback, a date
\* with day = a and month = b, never month = a and day = b.
C8_DayFirst ==
    \A r \in Records :
        Ambiguous(DateStr(txns[r.id])) =>
            /\ DayOf(r.date) = LeadingGroups(DateStr(txns[r.id])).a
            /\ MonthOf(r.date) = LeadingGroups(DateStr(txns[r.id])).b

\* The fallback gave the date of a record, from groups a # b both <= 12.
C8_Witness ==
    \E r \in Records :
        /\ Ambiguous(DateStr(txns[r.id]))
        /\ LeadingGroups(DateStr(txns[r.id])).a # LeadingGroups(DateStr(txns[r.id])).b
        /\ NormalizeDate(DateStr(txns[r.id])).path = "fallback"

\* s is DD.MM.YYYY for a valid calendar date
IsDayMonthYear(s) ==
    /\ Len(s) = 10
    /\ \A k \in {1, 2, 4, 5, 7, 8, 9, 10} : s[k] \in Digit
    /\ s[3] = "." /\ s[6] = "."
    /\ ValidDate(ToInt(SubSeq(s, 7, 10)), ToInt(SubSeq(s, 4, 5)), ToInt(SubSeq(s, 1, 2)))

\* The same date as YYYY-MM-DD
Iso(s) == SubSeq(s, 7, 10) \o <<"-">> \o SubSeq(s, 4, 5) \o <<"-">> \o SubSeq(s, 1, 2)

\* C9: a valid calendar date written DD.MM.YYYY comes back as the same date
\* in YYYY-MM-DD form.
C9_RoundTrip ==
    \A k \in 1..n :
        (IsDayMonthYear(DateStr(txns[k])) /\ Convertible(txns[k]))
        => \E r \in RecordsOf(k) : r.date = Iso(DateStr(txns[k]))

\* s is YYYY-MM-DD for a valid calendar date
IsIsoDate(s) ==
    /\ Len(s) = 10
    /\ \A k \in {1, 2, 3, 4, 6, 7, 9, 10} : s[k] \in Digit
    /\ s[5] = "-" /\ s[8] = "-"
    /\ ValidDate(ToInt(SubSeq(s, 1, 4)), ToInt(SubSeq(s, 6, 7)), ToInt(SubSeq(s, 9, 10)))

\* C10: the date of every record is a valid calendar date in YYYY-MM-DD
\* form, and a transaction whose date has no valid interpretation gives no
\* record.
C10_DateIsIso ==
    /\ \A r \in Records : IsIsoDate(r.date)
    /\ \A k \in 1..n : ~NormalizeDate(DateStr(txns[k])).ok => RecordsOf(k) = {}

---------------------------------------------------------------------------
(* Claims about the import: parse, convert, submit *)

\* C11: a candidate whose description is shorter than 5 characters is never
\* emitted, even with its processing date and both amounts in its span; so
\* every transaction parsed has a description, and every record of the
\* import a comment, of at least 5 characters.
C11_ShortDescriptionDropped ==
    /\ \A k \in 1..Len(regions) :
           Len(Description(text, matches, k)) < 5 => ~regions[k].emitted
    /\ \A k \in 1..Len(transactions) : Len(transactions[k].Description) >= 5
    /\ \A r \in Records : Len(r.comment) >= 5

\* A span with its date and both amounts after a short description was
\* passed over, and the import went on to make records of the others.
C11_Witness ==
    /\ cpc = "done"
    /\ Records # {}
    /\ \E k \in 1..Len(regions) :
           /\ Len(Description(text, matches, k)) < 5
           /\ SpanDates(k) # <<>>
           /\ Len(SpanAmounts(k)) = 2
           /\ ~regions[k].emitted

\* What was fetched has no account of the title, or no rouble instrument
NoAccount ==
    \A k \in 1..Len(zenmoney_data.account) : zenmoney_data.account[k].title # account_title

NoRouble ==
    \A k \in 1..Len(zenmoney_data.instrument) :
        /\ zenmoney_data.instrument[k].shortTitle # RUB
        /\ zenmoney_data.instrument[k].title # RoubleTitle

\* C12: when the fetch fails, or no account has the title, or there is no
\* rouble instrument, convert_to_zenmoney_format raises before its loop: no
\* transaction is consumed, no record is made, and the import asks no
\* confirmation and sends no submission.
C12_ResolutionFailureAborts ==
    (cpc \notin {"idle", "start"} /\ (zenmoney_data.failed \/ NoAccount \/ NoRouble)) =>
        /\ cpc = "raised"
        /\ n = 0
        /\ zenmoney_transactions = <<>>
        /\ confirmed = "unasked"
        /\ posts = <<>>
        /\ rpc \in {"convert", "aborted"}

\* The import aborted after a fetch that gave the account but no rouble
\* instrument.
C12_Witness ==
    /\ rpc = "aborted"
    /\ cpc = "raised"
    /\ ~zenmoney_data.failed
    /\ ~NoAccount
    /\ NoRouble
    /\ Len(txns) >= 2

\* C13: one import sends at most one submission, with the whole list of
\* records; none with --dry-run, none unless the confirmation was accepted,
\* none after convert_to_zenmoney_format raised; a submission that failed
\* (the import aborted after sending it) is not sent again.
C13_AllOrNothing ==
    /\ Len(posts) <= 1
    /\ \A k \in 1..Len(posts) : cpc = "done" /\ posts[k] = zenmoney_transactions
    /\ (dry_run \/ confirmed # "yes" \/ cpc = "raised") => posts = <<>>
    /\ rpc = "post" => posts = <<>>

\* A submission of two records or more failed, and the import aborted.
C13_Witness ==
    /\ rpc = "aborted"
    /\ Len(posts) = 1
    /\ Len(posts[1]) >= 2

\* C14: in one import get_zenmoney_data is called exactly once, by
\* convert_to_zenmoney_format before its loop, and never again.
C14_FetchedOnce ==
    /\ fetches <= 1
    /\ cpc \notin {"idle", "start"} => fetches = 1

\* C19: no submission has an empty list of records; when nothing was parsed,
\* or every parsed transaction was dropped by convert_to_zenmoney_format,
\* no confirmation is asked and post_transactions is not called.
C19_NoEmptySubmission ==
    /\ \A k \in 1..Len(posts) : posts[k] # <<>>
    /\ (ppc = "done" /\ transactions = <<>>) => (confirmed = "unasked" /\ rpc # "post")
    /\ (cpc = "done" /\ zenmoney_transactions = <<>>) => (confirmed = "unasked" /\ rpc # "post")

---------------------------------------------------------------------------
(* Further claims about convert_to_zenmoney_format *)

\* C16: in every record the side of the sign has its account, its
\* instrument and its amount, the other side has no account, no instrument
\* and amount 0; deleted is false.
C16_ExactlyOneSidePopulated ==
    \A r \in Records :
        LET amount == ParseAmount(AmountStr(txns[r.id])).amount_in_cents
        IN  /\ r.deleted = FALSE
            /\ amount > 0 =>
                   /\ r.incomeAccount # None /\ r.incomeInstrument # None /\ r.income > 0
                   /\ r.outcomeAccount = None /\ r.outcomeInstrument = None /\ r.outcome = 0
            /\ amount < 0 =>
                   /\ r.outcomeAccount # None /\ r.outcomeInstrument # None /\ r.outcome > 0
                   /\ r.incomeAccount = None /\ r.incomeInstrument = None /\ r.income = 0

\* The positions of the transactions consumed so far that have a
\* description, a date that normalizes and a numeral that does not round to
\* zero, in order
RECURSIVE ConvertibleUpTo(_)
ConvertibleUpTo(k) ==
    IF k = 0 THEN <<>>
    ELSE ConvertibleUpTo(k - 1) \o (IF Convertible(txns[k]) THEN <<k>> ELSE <<>>)

\* C17: the records are those of the convertible transactions, one each, in
\* the order of the input, each with the description, the date and the
\* amount of its own transaction; a transaction that gives no record does
\* not end the loop: the call returns only when every transaction has been
\* consumed, and raises only before the first.
C17_FailuresAreLocal ==
    /\ Len(zenmoney_transactions) = Len(ConvertibleUpTo(n))
    /\ \A j \in 1..Len(zenmoney_transactions) :
           LET k == ConvertibleUpTo(n)[j]
               r == zenmoney_transactions[j]
           IN  /\ r.id = k
               /\ r.comment = Strip(txns[k].Description)
               /\ r.date = strftime(NormalizeDate(DateStr(txns[k])), pads_year)
               /\ r.income + r.outcome = Abs(ParseAmount(AmountStr(txns[k])).amount_in_cents)
    /\ cpc = "done" => n = Len(txns)
    /\ cpc = "raised" => n = 0

\* A transaction whose date does not normalize came first, and the one
\* after it has its record.
C17_Witness ==
    /\ cpc = "done"
    /\ Len(txns) >= 2
    /\ Strip(txns[1].Description) # <<>>
    /\ ~NormalizeDate(DateStr(txns[1])).ok
    /\ Len(zenmoney_transactions) = Len(txns) - 1
    /\ zenmoney_transactions[1].id = 2

---------------------------------------------------------------------------
(* Claims about the removals of main.py:29-32 *)

\* C15: the removals are idempotent: applied to what they gave they change
\* nothing, and what they gave has no match of any of the four patterns.
C15_Idempotent ==
    /\ Len(clean) = 2 => clean[2] = clean[1]
    /\ Len(clean) >= 1 =>
           \A pattern \in {"page", "notice", "opening", "closing"} :
               \A p \in 1..Len(clean[1]) : PatternAt(clean[1], p, pattern) = 0

---------------------------------------------------------------------------
(* Claims about delete and delete_transactions *)

\* A date YYYY-MM-DD as the number YYYYMMDD
DateNumber(date) == ToInt(SelectSeq(date, LAMBDA c : c \in Digit))

\* The fetched transaction is not deleted, has the account on its income or
\* its outcome side, and its date is in the range, ends included.
InScope(txn, account_id) ==
    /\ ~txn.deleted
    /\ (txn.incomeAccount = account_id \/ txn.outcomeAccount = account_id)
    /\ DateNumber(options.start_date) <= DateNumber(txn.date)
    /\ DateNumber(txn.date) <= DateNumber(options.end_date)

\* delete_transactions was called with an account title and both dates, and
\* got as far as its filter: the fetch succeeded and the account exists.
FilteredByAccountAndRange ==
    /\ dpc \in {"done", "aborted"}
    /\ fetches = 1
    /\ ~zenmoney_data.failed
    /\ Truthy(options.account) /\ Truthy(options.start_date) /\ Truthy(options.end_date)
    /\ AccountIds(zenmoney_data, options.account) # <<>>

\* C18: called with an account title and a date range, delete_transactions
\* sends exactly the fetched transactions that are not deleted, have the
\* account on their income or their outcome side (transfers out of it
\* included) and a date in [start_date, end_date], each with deleted = true
\* and its own id and created time; it sends nothing when there is none.
C18_DeletesExactlyInScope ==
    FilteredByAccountAndRange =>
        LET account_id == AccountIds(zenmoney_data, options.account)[1]
            expected == SelectSeq(ledger, LAMBDA txn : InScope(txn, account_id))
        IN  IF expected = <<>> THEN deletions = <<>>
            ELSE /\ Len(deletions) = 1
                 /\ Len(deletions[1]) = Len(expected)
                 /\ \A j \in 1..Len(expected) :
                        /\ deletions[1][j].id = expected[j].id
                        /\ deletions[1][j].created = expected[j].created
                        /\ deletions[1][j].deleted = TRUE

\* No account and no date is given to delete_transactions.
NoFilter ==
    /\ ~Truthy(options.account)
    /\ ~Truthy(options.start_date)
    /\ ~Truthy(options.end_date)

\* delete_transactions has been called.
Called == dpc = "call" \/ fetches > 0

\* C20: delete_transactions is called only after the guards: never before
\* the first confirmation is accepted, never when no account, no date and
\* no --all is given (the command aborts), and with --all only after the
\* second confirmation is accepted; so a deletion without account and
\* without dates is sent only with --all and both confirmations accepted.
C20_GuardsBeforeDeletion ==
    /\ deletions # <<>> => Called
    /\ Called => (answers # <<>> /\ answers[1])
    /\ (NoFilter /\ ~options.delete_all /\ dpc \notin {"start", "guard"}) =>
           (dpc = "aborted" /\ ~Called /\ deletions = <<>>)
    /\ (options.delete_all /\ Called) => answers = <<TRUE, TRUE>>
    /\ (options.delete_all /\ Len(answers) = 2 /\ ~answers[2]) =>
           (dpc = "done" /\ ~Called)
    /\ (deletions # <<>> /\ NoFilter) => (options.delete_all /\ answers = <<TRUE, TRUE>>)

\* With --all, no account and no date, both confirmations accepted, every
\* transaction of the service that is not deleted was sent for deletion.
C20_Witness ==
    /\ dpc = "done"
    /\ options.delete_all
    /\ NoFilter
    /\ answers = <<TRUE, TRUE>>
    /\ Len(ledger) = 2
    /\ Len(deletions) = 1
    /\ Len(deletions[1]) = 2

====
